---- MODULE Spec2Model ----
(***************************************************************************)
(* A model of the SNTPv4 client of sntp-rs (src/src/client.rs): the        *)
(* request/response timing state machine of Client::poll, with the UDP     *)
(* socket it drives and the 48-byte wire format it reads and writes.       *)
(*                                                                         *)
(* Instants and durations are counted in seconds.  An unsigned 32-bit      *)
(* value is kept as the pair <<high 16 bits, low 16 bits>>, so that the    *)
(* wrapping arithmetic of u32 is computed and not assumed.                 *)
(***************************************************************************)
EXTENDS Integers, Sequences, FiniteSets, TLC

(***************************************************************************)
(* Bounds of the model.                                                    *)
(***************************************************************************)
\* poll instants are the multiples 0 .. MaxTick of half a request interval
MaxTick == 4
\* capacity (in datagrams) of the socket's receive buffer
MaxQueue == 1
\* capacity (in datagrams) of the socket's transmit buffer
TxCap == 1

(***************************************************************************)
(* Program constants (client.rs:10, 13, 16).                               *)
(***************************************************************************)
REQUEST_INTERVAL == 3600
DIFF_SEC_1970_2036 == 2085978496
SNTP_PORT == 123

\* length of an SNTP packet on the wire (Repr::buffer_len)
buffer_len == 48

HalfInterval == REQUEST_INTERVAL \div 2
Times == {k * HalfInterval : k \in 0..MaxTick}
\* instants at which a client is created
CreationTimes == {0, HalfInterval}
\* addresses a client can be configured with
Servers == {<<62, 112, 134, 4>>, <<10, 0, 0, 1>>}
\* IpAddress::Unspecified, the wildcard address
Unspecified == <<0, 0, 0, 0>>

(***************************************************************************)
(* u32 as <<hi, lo>>, 16 bits each.                                        *)
(***************************************************************************)
Half == 256 * 256

U32Of(n) == <<n \div Half, n % Half>>

\* an addition that stops at the largest u32
saturating_add(a, b) ==
    LET lo == a[2] + b[2]
        hi == a[1] + b[1] + (lo \div Half)
    IN  IF hi >= Half THEN <<Half - 1, Half - 1>> ELSE <<hi, lo % Half>>

\* u32::wrapping_add
wrapping_add(a, b) ==
    LET lo == a[2] + b[2]
        hi == a[1] + b[1] + (lo \div Half)
    IN  <<hi % Half, lo % Half>>

\* big-endian u32 at byte offset off (0-based) of data
U32At(data, off) ==
    <<data[off + 1] * 256 + data[off + 2], data[off + 3] * 256 + data[off + 4]>>

\* the four big-endian bytes of a u32
U32Bytes(v) == <<v[1] \div 256, v[1] % 256, v[2] \div 256, v[2] % 256>>

\* a byte read as i8, and back
I8Of(b) == IF b >= 128 THEN b - 256 ELSE b
I8Byte(i) == IF i < 0 THEN i + 256 ELSE i

Zeros(n) == [i \in 1..n |-> 0]

\* x is among the elements of the sequence ops
Has(ops, x) == \E i \in 1..Len(ops) : ops[i] = x
Sent(ops) == Has(ops, "send")

(***************************************************************************)
(* Option<T> and Result<Option<u32>>.                                      *)
(***************************************************************************)
None == [some |-> FALSE, val |-> <<0, 0>>]
Some(v) == [some |-> TRUE, val |-> v]

Ok(ts) == [ok |-> TRUE, err |-> "", ts |-> ts]
Err(e) == [ok |-> FALSE, err |-> e, ts |-> None]

(***************************************************************************)
(* Wire codec (crate::wire): Packet::new_checked, Repr::parse, Repr::emit. *)
(***************************************************************************)
LeapIndicatorOf(b) ==
    CASE b = 0 -> "NoWarning"
      [] b = 1 -> "InsertSecond"
      [] b = 2 -> "DeleteSecond"
      [] OTHER -> "Unknown"

LeapIndicatorBits(l) ==
    CASE l = "NoWarning" -> 0
      [] l = "InsertSecond" -> 1
      [] l = "DeleteSecond" -> 2
      [] OTHER -> 3

ProtocolModeOf(b) ==
    CASE b = 0 -> "Reserved"
      [] b = 1 -> "SymmetricActive"
      [] b = 2 -> "SymmetricPassive"
      [] b = 3 -> "Client"
      [] b = 4 -> "Server"
      [] b = 5 -> "Broadcast"
      [] b = 6 -> "ControlMessage"
      [] OTHER -> "Private"

ProtocolModeBits(m) ==
    CASE m = "Reserved" -> 0
      [] m = "SymmetricActive" -> 1
      [] m = "SymmetricPassive" -> 2
      [] m = "Client" -> 3
      [] m = "Server" -> 4
      [] m = "Broadcast" -> 5
      [] m = "ControlMessage" -> 6
      [] OTHER -> 7

\* a stratum is its kind and the byte it was read from
StratumOf(b) ==
    CASE b = 0 -> [kind |-> "KissOfDeath", val |-> 0]
      [] b = 1 -> [kind |-> "PrimaryReference", val |-> 1]
      [] b >= 2 /\ b <= 15 -> [kind |-> "SecondaryReference", val |-> b]
      [] b = 16 -> [kind |-> "Unsynchronized", val |-> 16]
      [] OTHER -> [kind |-> "Reserved", val |-> b]

StratumByte(s) == s.val

KissOfDeath == StratumOf(0)

\* Packet::new_checked: the buffer holds a whole packet
new_checked(data) == Len(data) >= buffer_len

TimestampAt(data, off) == [sec |-> U32At(data, off), frac |-> U32At(data, off + 4)]

\* Repr::parse of a checked packet
parse(data) ==
    [leap_indicator  |-> LeapIndicatorOf(data[1] \div 64),
     version         |-> (data[1] \div 8) % 8,
     protocol_mode   |-> ProtocolModeOf(data[1] % 8),
     stratum         |-> StratumOf(data[2]),
     poll_interval   |-> I8Of(data[3]),
     precision       |-> I8Of(data[4]),
     root_delay      |-> U32At(data, 4),
     root_dispersion |-> U32At(data, 8),
     ref_identifier  |-> SubSeq(data, 13, 16),
     ref_timestamp   |-> TimestampAt(data, 16),
     orig_timestamp  |-> TimestampAt(data, 24),
     recv_timestamp  |-> TimestampAt(data, 32),
     xmit_timestamp  |-> TimestampAt(data, 40)]

TimestampBytes(t) == U32Bytes(t.sec) \o U32Bytes(t.frac)

\* Repr::emit into a buffer of buffer_len bytes
emit(repr) ==
    <<LeapIndicatorBits(repr.leap_indicator) * 64 + (repr.version % 8) * 8
        + ProtocolModeBits(repr.protocol_mode),
      StratumByte(repr.stratum),
      I8Byte(repr.poll_interval),
      I8Byte(repr.precision)>>
    \o U32Bytes(repr.root_delay)
    \o U32Bytes(repr.root_dispersion)
    \o repr.ref_identifier
    \o TimestampBytes(repr.ref_timestamp)
    \o TimestampBytes(repr.orig_timestamp)
    \o TimestampBytes(repr.recv_timestamp)
    \o TimestampBytes(repr.xmit_timestamp)

(***************************************************************************)
(* The state: the Client of client.rs:22-27 and the UdpSocket its handle   *)
(* names, with the record of the latest call made on the client.           *)
(***************************************************************************)
VARIABLES
    next_request,   \* Client.next_request: when to send the next request
    ntp_server,     \* Client.ntp_server
    socket,         \* the UdpSocket of Client.udp_handle: endpoint, the local
                    \*   endpoint it is bound to (port 0: not bound); rx, tx,
                    \*   the receive and transmit buffers, of datagrams with
                    \*   their remote endpoint
    call,           \* the latest call on the client: arguments, what it found,
                    \*   the socket operations it made in order, and its result
    created,        \* the instant given to Client::new
    clock,          \* the latest instant the caller has read from its clock
    polled,         \* poll has been called
    last_send,      \* the latest send attempt: its instant (-1: none) and outcome
    skipped,        \* "pending": a due request was skipped, the socket being
                    \*   unable to send, and no poll since obtained no timestamp
                    \*   with the socket able to send; "pending_kod": so, and a
                    \*   kiss-of-death was received since; "no" otherwise
    codec           \* a Repr on its way through the wire codec: the Repr, the
                    \*   buffer it was emitted into, the Repr parsed from it

vars ==
    <<next_request, ntp_server, socket, call, created, clock, polled, last_send,
      skipped, codec>>

\* the Client struct as the methods below see it
Self == [next_request |-> next_request, ntp_server |-> ntp_server]

(***************************************************************************)
(* Client::receive, client.rs:128-164: the timestamp a payload yields and  *)
(* the client it leaves.                                                   *)
(***************************************************************************)
\* a receive that takes a kiss-of-death for a response
receive_ignores_kiss_of_death(self, data, now) ==
    IF ~new_checked(data)
    THEN [self |-> self, ts |-> None]
    ELSE LET sntp_repr == parse(data) IN
         IF sntp_repr.protocol_mode # "Server"
         THEN [self |-> self, ts |-> None]
         ELSE [self |-> self,
               ts   |-> Some(wrapping_add(sntp_repr.xmit_timestamp.sec,
                                          U32Of(DIFF_SEC_1970_2036)))]

\* a receive that takes a server's packet only while a request is awaited,
\* that is before the next request is due
receive_only_while_waiting(self, data, now) ==
    IF ~new_checked(data)
    THEN [self |-> self, ts |-> None]
    ELSE LET sntp_repr == parse(data) IN
         IF sntp_repr.protocol_mode # "Server"
         THEN [self |-> self, ts |-> None]
         ELSE IF sntp_repr.stratum = KissOfDeath
         THEN [self |-> [self EXCEPT !.next_request = now + REQUEST_INTERVAL],
               ts   |-> None]
         ELSE IF now >= self.next_request
         THEN [self |-> self, ts |-> None]
         ELSE [self |-> self,
               ts   |-> Some(wrapping_add(sntp_repr.xmit_timestamp.sec,
                                          U32Of(DIFF_SEC_1970_2036)))]

\* a receive that, on a kiss-of-death, makes the next request due at once
receive_kiss_of_death_rearms_now(self, data, now) ==
    IF ~new_checked(data)
    THEN [self |-> self, ts |-> None]
    ELSE LET sntp_repr == parse(data) IN
         IF sntp_repr.protocol_mode # "Server"
         THEN [self |-> self, ts |-> None]
         ELSE IF sntp_repr.stratum = KissOfDeath
         THEN [self |-> [self EXCEPT !.next_request = now], ts |-> None]
         ELSE [self |-> self,
               ts   |-> Some(wrapping_add(sntp_repr.xmit_timestamp.sec,
                                          U32Of(DIFF_SEC_1970_2036)))]

\* a receive that drops the echo of a request, of mode Client, and takes a
\* packet of any other mode for a server's
receive_drops_client_mode_only(self, data, now) ==
    IF ~new_checked(data)
    THEN [self |-> self, ts |-> None]
    ELSE LET sntp_repr == parse(data) IN
         IF sntp_repr.protocol_mode = "Client"
         THEN [self |-> self, ts |-> None]
         ELSE IF sntp_repr.stratum = KissOfDeath
         THEN [self |-> [self EXCEPT !.next_request = now + REQUEST_INTERVAL],
               ts   |-> None]
         ELSE [self |-> self,
               ts   |-> Some(wrapping_add(sntp_repr.xmit_timestamp.sec,
                                          U32Of(DIFF_SEC_1970_2036)))]

\* a receive that checks the stratum before the mode
receive_checks_stratum_first(self, data, now) ==
    IF ~new_checked(data)
    THEN [self |-> self, ts |-> None]
    ELSE LET sntp_repr == parse(data) IN
         IF sntp_repr.stratum = KissOfDeath
         THEN [self |-> [self EXCEPT !.next_request = now + REQUEST_INTERVAL],
               ts   |-> None]
         ELSE IF sntp_repr.protocol_mode # "Server"
         THEN [self |-> self, ts |-> None]
         ELSE [self |-> self,
               ts   |-> Some(wrapping_add(sntp_repr.xmit_timestamp.sec,
                                          U32Of(DIFF_SEC_1970_2036)))]

receive(self, data, now) ==
    IF ~new_checked(data)
    THEN [self |-> self, ts |-> None]
    ELSE LET sntp_repr == parse(data) IN
         IF sntp_repr.protocol_mode # "Server"
         THEN [self |-> self, ts |-> None]
         ELSE IF sntp_repr.stratum = KissOfDeath
         THEN [self |-> [self EXCEPT !.next_request = now + REQUEST_INTERVAL],
               ts   |-> None]
         ELSE [self |-> self,
               ts   |-> Some(wrapping_add(sntp_repr.xmit_timestamp.sec,
                                          U32Of(DIFF_SEC_1970_2036)))]

(***************************************************************************)
(* Client::request, client.rs:167-198.  send_ok: whether socket.send       *)
(* accepts the datagram.                                                   *)
(***************************************************************************)
request_repr ==
    [leap_indicator  |-> "NoWarning",
     version         |-> 4,
     protocol_mode   |-> "Client",
     stratum         |-> KissOfDeath,
     poll_interval   |-> 0,
     precision       |-> 0,
     root_delay      |-> <<0, 0>>,
     root_dispersion |-> <<0, 0>>,
     ref_identifier  |-> <<0, 0, 0, 0>>,
     ref_timestamp   |-> [sec |-> <<0, 0>>, frac |-> <<0, 0>>],
     orig_timestamp  |-> [sec |-> <<0, 0>>, frac |-> <<0, 0>>],
     recv_timestamp  |-> [sec |-> <<0, 0>>, frac |-> <<0, 0>>],
     xmit_timestamp  |-> [sec |-> <<0, 0>>, frac |-> <<0, 0>>]]

\* a request that backs off for two intervals when its send fails
request_backs_off_on_failure(self, sock, now, send_ok) ==
    LET self1    == [self EXCEPT !.next_request = now + REQUEST_INTERVAL]
        self2    == [self EXCEPT !.next_request = now + 2 * REQUEST_INTERVAL]
        endpoint == [addr |-> self.ntp_server, port |-> SNTP_PORT]
    IN  IF send_ok
        THEN [self   |-> self1,
              socket |-> [sock EXCEPT !.tx =
                             Append(@, [endpoint |-> endpoint,
                                        data     |-> emit(request_repr)])],
              result |-> Ok(None)]
        ELSE [self |-> self2, socket |-> sock, result |-> Err("send")]

\* a request that stamps its transmit timestamp with the seconds of now
request_stamps_transmit_time(self, sock, now, send_ok) ==
    LET self1    == [self EXCEPT !.next_request = now + REQUEST_INTERVAL]
        endpoint == [addr |-> self.ntp_server, port |-> SNTP_PORT]
        stamped  == [request_repr EXCEPT
                        !.xmit_timestamp = [sec |-> U32Of(now), frac |-> <<0, 0>>]]
    IN  IF send_ok
        THEN [self   |-> self1,
              socket |-> [sock EXCEPT !.tx =
                             Append(@, [endpoint |-> endpoint,
                                        data     |-> emit(stamped)])],
              result |-> Ok(None)]
        ELSE [self |-> self1, socket |-> sock, result |-> Err("send")]

\* a request that queues the datagram and forgets to emit into it
request_without_emit(self, sock, now, send_ok) ==
    LET self1    == [self EXCEPT !.next_request = now + REQUEST_INTERVAL]
        endpoint == [addr |-> self.ntp_server, port |-> SNTP_PORT]
    IN  IF send_ok
        THEN [self   |-> self1,
              socket |-> [sock EXCEPT !.tx =
                             Append(@, [endpoint |-> endpoint,
                                        data     |-> Zeros(buffer_len)])],
              result |-> Ok(None)]
        ELSE [self |-> self1, socket |-> sock, result |-> Err("send")]

\* a request that advances the timer only once the datagram is queued
request_advances_after_send(self, sock, now, send_ok) ==
    LET self1    == [self EXCEPT !.next_request = now + REQUEST_INTERVAL]
        endpoint == [addr |-> self.ntp_server, port |-> SNTP_PORT]
    IN  IF send_ok
        THEN [self   |-> self1,
              socket |-> [sock EXCEPT !.tx =
                             Append(@, [endpoint |-> endpoint,
                                        data     |-> emit(request_repr)])],
              result |-> Ok(None)]
        ELSE [self |-> self, socket |-> sock, result |-> Err("send")]

request(self, sock, now, send_ok) ==
    LET self1    == [self EXCEPT !.next_request = now + REQUEST_INTERVAL]
        endpoint == [addr |-> self.ntp_server, port |-> SNTP_PORT]
    IN  IF send_ok
        THEN [self   |-> self1,
              socket |-> [sock EXCEPT !.tx =
                             Append(@, [endpoint |-> endpoint,
                                        data     |-> emit(request_repr)])],
              result |-> Ok(None)]
        ELSE [self |-> self1, socket |-> sock, result |-> Err("send")]

(***************************************************************************)
(* The socket operations poll uses (smoltcp's UdpSocket, at the places     *)
(* client.rs calls them).                                                  *)
(***************************************************************************)
\* the endpoint of a socket that is not bound
Unbound == [addr |-> Unspecified, port |-> 0]

is_open(sock) == sock.endpoint.port # 0

\* UdpSocket::bind, as client.rs:103-106 calls it
bind(sock) ==
    [sock EXCEPT !.endpoint = [addr |-> Unspecified, port |-> SNTP_PORT]]
can_send(sock) == Len(sock.tx) < TxCap

\* a request-due check that is met at the deadline only
request_due_only_at_deadline(sock, self, now) ==
    can_send(sock) /\ now = self.next_request

\* a due check that waits until the timeout is past
request_due_strictly_after(sock, self, now) ==
    can_send(sock) /\ now > self.next_request

\* a due check that forgets the timeout
request_due_any_time(sock, self, now) == can_send(sock)

\* a due check that forgets to ask the socket
request_due_any_socket(sock, self, now) == now >= self.next_request

\* the condition of client.rs:120
request_due(sock, self, now) == can_send(sock) /\ now >= self.next_request

(***************************************************************************)
(* Client::poll, client.rs:98-125.  fault is what the socket layer answers *)
(* in this call: "none", or the one operation that fails if it is made:    *)
(* "bind", "recv" (an error other than Exhausted) or "send".  The outcome  *)
(* holds the client and socket after the call, the result, the payload     *)
(* handed to receive, and the socket operations made, in order.            *)
(***************************************************************************)
Faults == {"none", "bind", "recv", "send"}

\* a poll that sends the due request even when a timestamp was obtained
poll_respond_always_requests(self, sock, now, timestamp, send_ok) ==
    IF request_due(sock, self, now)
    THEN LET r == request(self, sock, now, send_ok) IN
         [self |-> r.self, socket |-> r.socket,
          result |-> IF r.result.ok THEN Ok(timestamp) ELSE r.result,
          ops  |-> <<"can_send", "send">>]
    ELSE [self |-> self, socket |-> sock, result |-> Ok(timestamp),
          ops  |-> <<"can_send">>]

\* client.rs:116-124, after the receive
poll_respond(self, sock, now, timestamp, send_ok) ==
    IF timestamp.some
    THEN [self |-> self, socket |-> sock, result |-> Ok(timestamp), ops |-> <<>>]
    ELSE IF request_due(sock, self, now)
         THEN LET r == request(self, sock, now, send_ok) IN
              [self |-> r.self, socket |-> r.socket, result |-> r.result,
               ops  |-> <<"can_send", "send">>]
         ELSE [self |-> self, socket |-> sock, result |-> Ok(None),
               ops  |-> <<"can_send">>]

\* client.rs:109-124, on a bound socket
\* a poll that makes the request-due check against the timer as it was
\* before the packet was handled
poll_recv_checks_stale_timer(self, sock, now, fault) ==
    IF fault = "recv"
    THEN [self |-> self, socket |-> sock, result |-> Err("recv"),
          ops |-> <<"recv">>, got |-> None]
    ELSE IF sock.rx = <<>>
    THEN LET r == poll_respond(self, sock, now, None, fault # "send") IN
         [self |-> r.self, socket |-> r.socket, result |-> r.result,
          ops |-> <<"recv">> \o r.ops, got |-> None]
    ELSE LET payload == Head(sock.rx).data
             sock1   == [sock EXCEPT !.rx = Tail(@)]
             rcv     == receive(self, payload, now)
             r       == poll_respond(self, sock1, now, rcv.ts, fault # "send")
         IN  [self |-> IF Sent(r.ops) THEN r.self ELSE rcv.self,
              socket |-> r.socket, result |-> r.result,
              ops |-> <<"recv">> \o r.ops, got |-> Some(payload)]

\* a poll that receives until the queue is empty and keeps the last timestamp
poll_recv_drains_queue(self, sock, now, fault) ==
    IF fault = "recv"
    THEN [self |-> self, socket |-> sock, result |-> Err("recv"),
          ops |-> <<"recv">>, got |-> None]
    ELSE IF sock.rx = <<>>
    THEN LET r == poll_respond(self, sock, now, None, fault # "send") IN
         [self |-> r.self, socket |-> r.socket, result |-> r.result,
          ops |-> <<"recv">> \o r.ops, got |-> None]
    ELSE LET payload == sock.rx[Len(sock.rx)].data
             sock1   == [sock EXCEPT !.rx = <<>>]
             rcv     == receive(self, payload, now)
             r       == poll_respond(rcv.self, sock1, now, rcv.ts, fault # "send")
         IN  [self |-> r.self, socket |-> r.socket, result |-> r.result,
              ops |-> [i \in 1..(Len(sock.rx) + 1) |-> "recv"] \o r.ops,
              got |-> Some(payload)]

\* a poll that takes every receive error for an empty queue
poll_recv_swallows_errors(self, sock, now, fault) ==
    IF fault = "recv" \/ sock.rx = <<>>
    THEN LET r == poll_respond(self, sock, now, None, fault # "send") IN
         [self |-> r.self, socket |-> r.socket, result |-> r.result,
          ops |-> <<"recv">> \o r.ops, got |-> None]
    ELSE LET payload == Head(sock.rx).data
             sock1   == [sock EXCEPT !.rx = Tail(@)]
             rcv     == receive(self, payload, now)
             r       == poll_respond(rcv.self, sock1, now, rcv.ts, fault # "send")
         IN  [self |-> r.self, socket |-> r.socket, result |-> r.result,
              ops |-> <<"recv">> \o r.ops, got |-> Some(payload)]

poll_recv(self, sock, now, fault) ==
    IF fault = "recv"
    THEN [self |-> self, socket |-> sock, result |-> Err("recv"),
          ops |-> <<"recv">>, got |-> None]
    ELSE IF sock.rx = <<>>
    THEN LET r == poll_respond(self, sock, now, None, fault # "send") IN
         [self |-> r.self, socket |-> r.socket, result |-> r.result,
          ops |-> <<"recv">> \o r.ops, got |-> None]
    ELSE LET payload == Head(sock.rx).data
             sock1   == [sock EXCEPT !.rx = Tail(@)]
             rcv     == receive(self, payload, now)
             r       == poll_respond(rcv.self, sock1, now, rcv.ts, fault # "send")
         IN  [self |-> r.self, socket |-> r.socket, result |-> r.result,
              ops |-> <<"recv">> \o r.ops, got |-> Some(payload)]

poll(self, sock, now, fault) ==
    IF ~is_open(sock)
    THEN IF fault = "bind"
         THEN [self |-> self, socket |-> sock, result |-> Err("bind"),
               ops |-> <<"is_open", "bind">>, got |-> None]
         ELSE LET r == poll_recv(self, bind(sock), now, fault) IN
              [r EXCEPT !.ops = <<"is_open", "bind">> \o @]
    ELSE LET r == poll_recv(self, sock, now, fault) IN
         [r EXCEPT !.ops = <<"is_open">> \o @]

\* Instant - Instant (smoltcp::time, imported at client.rs:3): a Duration,
\* which is unsigned: the distance between the two instants
instant_sub(a, b) == IF a >= b THEN a - b ELSE b - a

\* Client::next_poll, client.rs:90-92
next_poll(self, now) == instant_sub(self.next_request, now)

(***************************************************************************)
(* The datagrams the network delivers to the socket.                       *)
(***************************************************************************)
\* a 48-byte packet: first byte, stratum byte, a filler for bytes 2..39,
\* and the transmit timestamp's eight bytes
MkPacket(b0, b1, fill, xsec, xfrac) ==
    <<b0, b1>> \o [i \in 1..38 |-> fill] \o xsec \o xfrac

\* LI | VN | Mode, the first byte
FirstByte(li, vn, mode) == li * 64 + vn * 8 + mode

\* a response, a response of era end with a fraction, a response whose
\* transmit timestamp is zero, a kiss-of-death, the client's own request
\* echoed, and a datagram one byte short
Payloads ==
    { MkPacket(FirstByte(0, 4, 4), 2, 0, <<0, 0, 0, 100>>, <<0, 0, 0, 0>>),
      MkPacket(FirstByte(3, 3, 4), 1, 7, <<255, 255, 255, 255>>, <<128, 0, 0, 1>>),
      MkPacket(FirstByte(0, 4, 4), 2, 0, <<0, 0, 0, 0>>, <<0, 0, 0, 0>>),
      MkPacket(FirstByte(0, 4, 4), 0, 0, <<0, 0, 0, 100>>, <<0, 0, 0, 0>>),
      MkPacket(FirstByte(0, 4, 3), 0, 0, <<0, 0, 0, 0>>, <<0, 0, 0, 0>>),
      SubSeq(MkPacket(FirstByte(0, 4, 4), 2, 0, <<0, 0, 0, 100>>, <<0, 0, 0, 0>>),
             1, buffer_len - 1) }

(***************************************************************************)
(* Init: the state Client::new leaves, client.rs:65-85: a fresh socket,    *)
(* not bound, and next_request the instant of creation.                    *)
(***************************************************************************)
\* no Repr in the codec
NoCodec ==
    [op |-> "none", repr |-> request_repr, buf |-> <<>>, parsed |-> request_repr]

NoCall ==
    [op |-> "idle", now |-> 0, fault |-> "none", first |-> FALSE, nr0 |-> 0,
     send0 |-> [at |-> -1, ok |-> FALSE], skipped0 |-> "no", open0 |-> FALSE,
     can_send0 |-> FALSE, tx0 |-> <<>>, got |-> [some |-> FALSE, val |-> <<>>],
     from |-> Unbound, ops |-> <<>>, result |-> Ok(None), dur |-> 0, seq |-> 0]

new(server, now) ==
    [next_request |-> now, ntp_server |-> server,
     socket |-> [endpoint |-> Unbound, rx |-> <<>>, tx |-> <<>>]]

Init ==
    \E server \in Servers, now \in CreationTimes :
        LET c == new(server, now) IN
        /\ next_request = c.next_request
        /\ ntp_server = c.ntp_server
        /\ socket = c.socket
        /\ call = [NoCall EXCEPT !.op = "new", !.now = now]
        /\ created = now
        /\ clock = now
        /\ polled = FALSE
        /\ last_send = [at |-> -1, ok |-> FALSE]
        /\ skipped = "no"
        /\ codec = NoCodec

(***************************************************************************)
(* The caller's calls.  The caller reads now from its monotonic clock      *)
(* (smoltcp's Instant), so the now of a call is never before that of an    *)
(* earlier poll, nor before the creation of the client.                    *)
(***************************************************************************)
\* what a poll makes of skipped: r is the outcome of poll(self, sock, now, _)
SkipAfter(self, sock, now, r) ==
    LET due_check == Has(r.ops, "can_send")
        kod       == /\ r.got.some /\ new_checked(r.got.val)
                     /\ r.got.val[1] % 8 = 4 /\ r.got.val[2] = 0
    IN  IF due_check /\ ~r.result.ts.some /\ can_send(sock)
        THEN "no"
        ELSE IF skipped # "no"
        THEN (IF kod THEN "pending_kod" ELSE skipped)
        ELSE IF due_check /\ ~r.result.ts.some /\ ~kod
                /\ now >= self.next_request /\ ~can_send(sock)
        THEN "pending"
        ELSE "no"

\* the record of a poll: its arguments, the state it found, and r, the
\* outcome of poll(Self, socket, now, fault)
PollCall(now, fault, r) ==
    [op |-> "poll", now |-> now, fault |-> fault,
     first |-> ~polled,
     nr0 |-> next_request, send0 |-> last_send,
     skipped0 |-> skipped,
     open0 |-> is_open(socket), can_send0 |-> can_send(socket),
     tx0 |-> socket.tx,
     got |-> IF r.got.some THEN r.got ELSE [some |-> FALSE, val |-> <<>>],
     from |-> IF r.got.some THEN Head(socket.rx).endpoint ELSE Unbound,
     ops |-> r.ops, result |-> r.result, dur |-> 0, seq |-> 0]

CallPoll(now, fault) ==
    /\ now >= clock
    /\ fault = "bind" => ~is_open(socket)
    /\ LET r == poll(Self, socket, now, fault) IN
        /\ next_request' = r.self.next_request
        /\ ntp_server' = r.self.ntp_server
        /\ socket' = r.socket
        /\ call' = PollCall(now, fault, r)
        /\ clock' = now
        /\ polled' = TRUE
        /\ last_send' = IF Sent(r.ops) THEN [at |-> now, ok |-> r.result.ok]
                        ELSE last_send
        /\ skipped' = SkipAfter(Self, socket, now, r)
        /\ UNCHANGED <<created, codec>>

CallNextPoll(now) ==
    /\ now >= clock
    /\ call' = [NoCall EXCEPT !.op = "next_poll", !.now = now,
                              !.nr0 = next_request, !.open0 = is_open(socket),
                              !.can_send0 = can_send(socket), !.tx0 = socket.tx,
                              !.dur = next_poll(Self, now)]
    /\ UNCHANGED <<next_request, ntp_server, socket, created, clock, polled,
                   last_send, skipped, codec>>

(***************************************************************************)
(* The network stack, between the client's calls: a datagram arrives for   *)
(* the bound socket; the interface sends the oldest queued datagram.       *)
(***************************************************************************)
Deliver(payload) ==
    /\ is_open(socket)
    /\ Len(socket.rx) < MaxQueue
    /\ socket' = [socket EXCEPT !.rx =
                     Append(@, [endpoint |-> [addr |-> ntp_server, port |-> SNTP_PORT],
                                data     |-> payload])]
    /\ call' = NoCall
    /\ UNCHANGED <<next_request, ntp_server, created, clock, polled, last_send,
                   skipped, codec>>

Transmit ==
    /\ socket.tx # <<>>
    /\ socket' = [socket EXCEPT !.tx = Tail(@)]
    /\ call' = NoCall
    /\ UNCHANGED <<next_request, ntp_server, created, clock, polled, last_send,
                   skipped, codec>>

Next ==
    \/ \E now \in Times, fault \in Faults : CallPoll(now, fault)
    \/ \E payload \in Payloads : Deliver(payload)
    \/ Transmit

Spec == Init /\ [][Next]_vars

\* the same client, its caller also asking next_poll between the polls
NextAdvised ==
    \/ Next
    \/ \E now \in Times : CallNextPoll(now)

SpecAdvised == Init /\ [][NextAdvised]_vars

(***************************************************************************)
(* One poll of a datagram of any content: a bound client, its request      *)
(* sent or not yet sent, with one datagram waiting in the receive buffer.  *)
(***************************************************************************)
XmitSeconds ==
    { <<0, 0, 0, 0>>, <<0, 0, 0, 100>>, <<128, 0, 0, 0>>, <<131, 170, 126, 128>>,
      <<255, 255, 255, 255>> }

WirePayloads ==
    { MkPacket(FirstByte(0, 4, mode), st, 0, sec, <<0, 0, 0, 0>>) :
        mode \in 0..7, st \in {0, 1, 16}, sec \in XmitSeconds }
    \cup
    { MkPacket(FirstByte(3, 3, mode), st, 7, sec, <<128, 0, 0, 1>>) :
        mode \in 0..7, st \in {0, 2, 17}, sec \in XmitSeconds }
    \cup
    { <<>>,
      SubSeq(MkPacket(FirstByte(0, 4, 4), 2, 0, <<0, 0, 0, 100>>, <<0, 0, 0, 0>>),
             1, buffer_len - 1),
      MkPacket(FirstByte(0, 4, 4), 2, 0, <<0, 0, 0, 100>>, <<0, 0, 0, 0>>)
        \o <<1>> }

InitWire ==
    \E server \in Servers, sender \in Servers, payload \in WirePayloads,
       sent \in BOOLEAN :
        /\ created = 0
        /\ next_request = IF sent THEN created + REQUEST_INTERVAL ELSE created
        /\ ntp_server = server
        /\ socket = [bind(new(server, created).socket) EXCEPT !.rx =
                        <<[endpoint |-> [addr |-> sender, port |-> SNTP_PORT],
                           data     |-> payload]>>]
        /\ call = NoCall
        /\ clock = created
        /\ polled = TRUE
        /\ last_send = IF sent THEN [at |-> created, ok |-> TRUE]
                       ELSE [at |-> -1, ok |-> FALSE]
        /\ skipped = "no"
        /\ codec = NoCodec

NextWire ==
    \E now \in Times, fault \in Faults :
        /\ socket.rx # <<>>
        /\ CallPoll(now, fault)

SpecWire == InitWire /\ [][NextWire]_vars

(***************************************************************************)
(* The wire codec on its own: a Repr is emitted into a buffer of           *)
(* buffer_len bytes and the buffer is parsed back, beside a client making  *)
(* its first poll.                                                         *)
(***************************************************************************)
\* the fields of a Repr after its first two bytes, in three fillings
ReprBody(k) ==
    CASE k = 0 ->
           [poll_interval |-> 0, precision |-> 0, root_delay |-> <<0, 0>>,
            root_dispersion |-> <<0, 0>>, ref_identifier |-> <<0, 0, 0, 0>>,
            ref_timestamp  |-> [sec |-> <<0, 0>>, frac |-> <<0, 0>>],
            orig_timestamp |-> [sec |-> <<0, 0>>, frac |-> <<0, 0>>],
            recv_timestamp |-> [sec |-> <<0, 0>>, frac |-> <<0, 0>>],
            xmit_timestamp |-> [sec |-> <<0, 0>>, frac |-> <<0, 0>>]]
      [] k = 1 ->
           [poll_interval |-> -128, precision |-> -1,
            root_delay |-> <<65535, 65535>>, root_dispersion |-> <<0, 1>>,
            ref_identifier |-> <<255, 1, 2, 3>>,
            ref_timestamp  |-> [sec |-> <<1, 2>>, frac |-> <<3, 4>>],
            orig_timestamp |-> [sec |-> <<5, 6>>, frac |-> <<7, 8>>],
            recv_timestamp |-> [sec |-> <<9, 10>>, frac |-> <<11, 12>>],
            xmit_timestamp |-> [sec |-> <<65535, 65535>>, frac |-> <<32768, 1>>]]
      [] OTHER ->
           [poll_interval |-> 127, precision |-> -20,
            root_delay |-> <<0, 256>>, root_dispersion |-> <<256, 0>>,
            ref_identifier |-> <<71, 80, 83, 0>>,
            ref_timestamp  |-> [sec |-> <<33706, 32384>>, frac |-> <<0, 0>>],
            orig_timestamp |-> [sec |-> <<0, 0>>, frac |-> <<0, 0>>],
            recv_timestamp |-> [sec |-> <<33706, 32385>>, frac |-> <<65535, 65535>>],
            xmit_timestamp |-> [sec |-> <<33706, 32385>>, frac |-> <<1, 0>>]]

MkRepr(li, vn, mode, st, k) ==
    LET b == ReprBody(k) IN
    [leap_indicator  |-> LeapIndicatorOf(li),
     version         |-> vn,
     protocol_mode   |-> ProtocolModeOf(mode),
     stratum         |-> StratumOf(st),
     poll_interval   |-> b.poll_interval,
     precision       |-> b.precision,
     root_delay      |-> b.root_delay,
     root_dispersion |-> b.root_dispersion,
     ref_identifier  |-> b.ref_identifier,
     ref_timestamp   |-> b.ref_timestamp,
     orig_timestamp  |-> b.orig_timestamp,
     recv_timestamp  |-> b.recv_timestamp,
     xmit_timestamp  |-> b.xmit_timestamp]

\* Reprs whose fields are within their ranges: every leap indicator and
\* mode, versions of 3 bits, strata of every kind
Reprs ==
    { MkRepr(lv[1], lv[2], mode, st, k) :
        lv \in {<<0, 4>>, <<1, 0>>, <<2, 3>>, <<3, 7>>}, mode \in 0..7,
        st \in {0, 1, 2, 15, 16, 17, 255}, k \in 0..2 }

InitCodec ==
    \E repr \in Reprs :
        LET c == new(<<62, 112, 134, 4>>, 0) IN
        /\ next_request = c.next_request
        /\ ntp_server = c.ntp_server
        /\ socket = c.socket
        /\ call = [NoCall EXCEPT !.op = "new"]
        /\ created = 0
        /\ clock = 0
        /\ polled = FALSE
        /\ last_send = [at |-> -1, ok |-> FALSE]
        /\ skipped = "no"
        /\ codec = [NoCodec EXCEPT !.op = "repr", !.repr = repr]

\* Repr::emit into a fresh buffer
EmitRepr ==
    /\ codec.op = "repr"
    /\ codec' = [codec EXCEPT !.op = "emitted", !.buf = emit(codec.repr)]
    /\ UNCHANGED <<next_request, ntp_server, socket, call, created, clock, polled,
                   last_send, skipped>>

\* Packet::new_checked, then Repr::parse
ParseBuffer ==
    /\ codec.op = "emitted"
    /\ new_checked(codec.buf)
    /\ codec' = [codec EXCEPT !.op = "parsed", !.parsed = parse(codec.buf)]
    /\ UNCHANGED <<next_request, ntp_server, socket, call, created, clock, polled,
                   last_send, skipped>>

NextCodec ==
    \/ EmitRepr
    \/ ParseBuffer
    \/ \E now \in Times, fault \in Faults : ~polled /\ CallPoll(now, fault)

SpecCodec == InitCodec /\ [][NextCodec]_vars

(***************************************************************************)
(* The client polled for ever.  For now to grow without bound in a finite  *)
(* state space the instants of the state are kept relative to the latest   *)
(* poll: after a poll at now, every instant is moved back by now - clock,  *)
(* so that clock stays where it was, and an instant that falls more than   *)
(* an interval behind clock is kept an interval behind it.  The code       *)
(* compares next_request with now only, and now >= clock, so the poll      *)
(* finds what it would find with the instants as they were.  The record of *)
(* the call keeps the instants as the poll found them: call.now > clock is *)
(* a poll later than the one before.  The variables that only remember     *)
(* (created, polled, last_send, skipped), which the code never reads, stay *)
(* as the creation left them, and no socket operation fails.               *)
(***************************************************************************)
\* a server's answer, a kiss-of-death, the echo of a request
LivePayloads ==
    { MkPacket(FirstByte(0, 4, 4), 2, 0, <<0, 0, 0, 100>>, <<0, 0, 0, 0>>),
      MkPacket(FirstByte(0, 4, 4), 0, 0, <<0, 0, 0, 100>>, <<0, 0, 0, 0>>),
      <<35>> \o Zeros(47) }

Rebase(t, shift) ==
    IF t - shift >= clock - REQUEST_INTERVAL THEN t - shift
    ELSE clock - REQUEST_INTERVAL

InitLive ==
    \E server \in {<<62, 112, 134, 4>>} :
        LET c == new(server, REQUEST_INTERVAL) IN
        /\ next_request = c.next_request
        /\ ntp_server = c.ntp_server
        /\ socket = c.socket
        /\ call = [NoCall EXCEPT !.op = "new", !.now = REQUEST_INTERVAL]
        /\ created = REQUEST_INTERVAL
        /\ clock = REQUEST_INTERVAL
        /\ polled = FALSE
        /\ last_send = [at |-> -1, ok |-> FALSE]
        /\ skipped = "no"
        /\ codec = NoCodec

\* a poll at now; call.seq tells a poll from the poll before it when both
\* found the same
PollLive(now) ==
    /\ now >= clock
    /\ LET r     == poll(Self, socket, now, "none")
           shift == now - clock
       IN
        /\ next_request' = Rebase(r.self.next_request, shift)
        /\ ntp_server' = r.self.ntp_server
        /\ socket' = r.socket
        /\ call' = [PollCall(now, "none", r) EXCEPT !.seq = 1 - call.seq]
        /\ UNCHANGED <<created, clock, polled, last_send, skipped, codec>>

NextLive ==
    \/ \E now \in Times : PollLive(now)
    \/ \E payload \in LivePayloads : Deliver(payload)
    \/ Transmit

\* the caller's loop goes on calling poll
SpecLive ==
    /\ InitLive
    /\ [][NextLive]_vars
    /\ WF_vars(\E now \in Times : PollLive(now))

(***************************************************************************)
(* The vocabulary of the properties: what the latest call was and found,   *)
(* read from the bytes of the datagram as the wire format lays them out.   *)
(***************************************************************************)
IsPoll == call.op = "poll"
\* the poll was handed a datagram
GotDatagram == IsPoll /\ call.got.some
\* the receive found the queue empty
FoundEmpty ==
    IsPoll /\ Has(call.ops, "recv") /\ call.fault # "recv" /\ ~call.got.some
\* the poll went on to the request-due check
ReachedDueCheck == IsPoll /\ Has(call.ops, "can_send")

WholePacket(d) == Len(d) >= 48
ModeBits(d) == d[1] % 8
\* a Server-mode packet that is no kiss-of-death
YieldsTimestamp(d) == WholePacket(d) /\ ModeBits(d) = 4 /\ d[2] # 0
\* a Server-mode packet of stratum 0
IsKissOfDeath(d) == WholePacket(d) /\ ModeBits(d) = 4 /\ d[2] = 0

\* the request as it goes out: LI 0, VN 4, mode 3, and 47 zero bytes
RequestDatagram ==
    [endpoint |-> [addr |-> ntp_server, port |-> 123],
     data     |-> <<35>> \o Zeros(47)]

\* C1: a poll whose received datagram yields a timestamp (48 bytes or more,
\* mode Server, stratum not 0) returns Ok(Some(ts)), attempts no send and
\* leaves next_request as it was, also when the request is due and the socket
\* can send.
C1_ResponseWins ==
    (GotDatagram /\ YieldsTimestamp(call.got.val)) =>
        /\ call.result.ok
        /\ call.result.ts.some
        /\ ~Sent(call.ops)
        /\ socket.tx = call.tx0
        /\ next_request = call.nr0

C1_Witness ==
    /\ GotDatagram
    /\ YieldsTimestamp(call.got.val)
    /\ call.now >= call.nr0
    /\ call.can_send0
    /\ call.result.ts.some

\* C2 as stated: every poll that obtains no timestamp, with the socket able
\* to send and now >= next_request, sends exactly one request to
\* (ntp_server, 123), sets next_request to now + 3600 and returns Ok(None).
\* (Stated of the polls in which no socket operation fails.)
C2_AsStated ==
    (IsPoll /\ call.fault = "none" /\ ~call.result.ts.some /\ call.can_send0
        /\ call.now >= call.nr0) =>
        /\ socket.tx = Append(call.tx0, RequestDatagram)
        /\ next_request = call.now + 3600
        /\ call.result = Ok(None)

\* C2, amended: every poll that meets no transport error, obtains no
\* timestamp and receives no kiss-of-death, with the socket able to send and
\* now >= next_request, sends exactly one request to (ntp_server, 123), sets
\* next_request to now + 3600 and returns Ok(None).  A client created at t0
\* sends so on its first poll if that poll meets no transport error, and a
\* poll that receives a Server-mode packet, no kiss-of-death, with transmit
\* seconds 100 returns Some(2085978596).
C2_RequestOnTimeout ==
    /\ (IsPoll /\ call.result.ok /\ ~call.result.ts.some
          /\ ~(call.got.some /\ IsKissOfDeath(call.got.val))
          /\ call.can_send0 /\ call.now >= call.nr0) =>
            /\ socket.tx = Append(call.tx0, RequestDatagram)
            /\ next_request = call.now + 3600
            /\ call.result = Ok(None)
    /\ (IsPoll /\ call.first /\ call.result.ok) =>
            /\ call.nr0 = created
            /\ socket.endpoint = [addr |-> <<0, 0, 0, 0>>, port |-> 123]
            /\ socket.tx = <<RequestDatagram>>
            /\ next_request = call.now + 3600
            /\ call.result = Ok(None)
    /\ (GotDatagram /\ YieldsTimestamp(call.got.val)
          /\ SubSeq(call.got.val, 41, 44) = <<0, 0, 0, 100>>) =>
            call.result = Ok(Some(U32Of(2085978596)))

\* the normal exchange: the request went out at creation time, and this
\* later poll returns the timestamp of the response
C2_Witness ==
    /\ last_send = [at |-> created, ok |-> TRUE]
    /\ GotDatagram
    /\ call.now > created
    /\ call.result = Ok(Some(U32Of(2085978596)))

\* C3: a received packet of 48 bytes or more, mode Server and stratum 0
\* yields no timestamp, whatever else it carries, and sets next_request to
\* exactly now + 3600, now being the argument of this poll.
C3_KissOfDeath ==
    (GotDatagram /\ IsKissOfDeath(call.got.val)) =>
        /\ call.result = Ok(None)
        /\ next_request = call.now + 3600
        /\ ~Sent(call.ops)

\* a kiss-of-death carrying a transmit timestamp, moving the deadline
C3_Witness ==
    /\ GotDatagram
    /\ IsKissOfDeath(call.got.val)
    /\ SubSeq(call.got.val, 41, 44) # <<0, 0, 0, 0>>
    /\ call.nr0 # call.now + 3600
    /\ next_request = call.now + 3600

\* C4: a poll on an open (or bindable) socket that finds the receive queue
\* empty, with now < next_request, returns Ok(None), attempts no send,
\* whether or not the socket can send, and leaves next_request as it was.
C4_NoDataBeforeTimeout ==
    (FoundEmpty /\ call.now < call.nr0) =>
        /\ call.result = Ok(None)
        /\ ~Sent(call.ops)
        /\ socket.tx = call.tx0
        /\ next_request = call.nr0

C4_Witness ==
    /\ FoundEmpty
    /\ call.now < call.nr0
    /\ call.can_send0
    /\ call.result = Ok(None)

\* C5: a received payload shorter than 48 bytes, or of a mode other than
\* Server, yields no timestamp and leaves next_request to the due check of
\* the same call, which poll goes on to: the request is attempted exactly
\* when the socket can send and now >= the next_request of before the call;
\* poll returns no error but that of a failing send.
C5_DataErrorsNotSurfaced ==
    (GotDatagram /\ (~WholePacket(call.got.val) \/ ModeBits(call.got.val) # 4)) =>
        /\ ReachedDueCheck
        /\ ~call.result.ts.some
        /\ Sent(call.ops) <=> (call.can_send0 /\ call.now >= call.nr0)
        /\ next_request = IF Sent(call.ops) THEN call.now + 3600 ELSE call.nr0
        /\ call.result.ok <=> ~(Sent(call.ops) /\ call.fault = "send")
        /\ ~call.result.ok => call.result = Err("send")

\* a short datagram is dropped and the due request goes out in the same call
C5_Witness ==
    /\ GotDatagram
    /\ ~WholePacket(call.got.val)
    /\ Sent(call.ops)
    /\ call.result = Ok(None)
    /\ socket.tx = Append(call.tx0, RequestDatagram)

\* C6: when the socket is not open and bind fails, poll returns that error
\* with no receive and no send attempted; when receive fails with an error
\* other than Exhausted, poll returns that error with no send attempted; in
\* both cases next_request is left as it was.
C6_TransportErrorsAbort ==
    /\ (IsPoll /\ call.fault = "bind") =>
          /\ ~call.open0
          /\ call.result = Err("bind")
          /\ call.ops = <<"is_open", "bind">>
          /\ socket.endpoint.port = 0
          /\ socket.tx = call.tx0
          /\ next_request = call.nr0
    /\ (IsPoll /\ call.fault = "recv") =>
          /\ call.result = Err("recv")
          /\ call.ops[Len(call.ops)] = "recv"
          /\ ~Has(call.ops, "can_send")
          /\ ~Sent(call.ops)
          /\ socket.tx = call.tx0
          /\ next_request = call.nr0

\* a receive error aborts a poll whose request was due and could be sent
C6_Witness ==
    /\ IsPoll
    /\ call.fault = "recv"
    /\ call.result = Err("recv")
    /\ call.now >= call.nr0
    /\ call.can_send0

\* the bind error, on the first poll of a client
C6_WitnessBind ==
    /\ IsPoll
    /\ call.fault = "bind"
    /\ call.result = Err("bind")
    /\ call.now >= call.nr0

\* C7: when the send of a request made at now fails, poll returns that error
\* with next_request already now + 3600, and no later poll at an instant
\* before now + 3600 attempts a send.  (call.send0 is the latest send
\* attempt before the call.)
C7_NoRequestStorm ==
    /\ (IsPoll /\ Sent(call.ops) /\ call.fault = "send") =>
          /\ call.result = Err("send")
          /\ next_request = call.now + 3600
    /\ (IsPoll /\ call.send0.at >= 0 /\ ~call.send0.ok
          /\ call.now < call.send0.at + 3600) =>
          ~Sent(call.ops)

\* after a failed send, a later poll inside the hour finds the queue empty
\* and the socket able to send, and sends nothing
C7_Witness ==
    /\ FoundEmpty
    /\ call.send0.at >= 0
    /\ ~call.send0.ok
    /\ call.can_send0
    /\ call.now > call.send0.at
    /\ call.now < call.send0.at + 3600
    /\ ~Sent(call.ops)

\* the poll reached the due check with no timestamp
NoTimestamp == ReachedDueCheck /\ ~call.result.ts.some
\* the poll was handed a kiss-of-death
GotKissOfDeath == GotDatagram /\ IsKissOfDeath(call.got.val)

\* the skip itself, common to C8 as stated and as amended
SkipsRequest ==
    (NoTimestamp /\ ~GotKissOfDeath /\ call.now >= call.nr0 /\ ~call.can_send0) =>
        /\ ~Sent(call.ops)
        /\ socket.tx = call.tx0
        /\ next_request = call.nr0
        /\ call.result = Ok(None)
        /\ skipped # "no"

\* C8 as stated: a due request skipped because the socket cannot send is
\* attempted by the first later poll that obtains no timestamp while the
\* socket can send, and only that poll advances next_request.
\* (call.skipped0 # "no": such a skip came before the call, and no poll since
\* obtained no timestamp with the socket able to send.)
C8_AsStated ==
    /\ SkipsRequest
    /\ (call.skipped0 # "no" /\ NoTimestamp /\ call.can_send0) =>
          /\ Sent(call.ops)
          /\ next_request = call.now + 3600
    /\ (IsPoll /\ call.skipped0 # "no" /\ ~(NoTimestamp /\ call.can_send0)) =>
          next_request = call.nr0

\* C8, amended: a poll that reaches the due check with no timestamp and no
\* kiss-of-death, with now >= next_request and the socket unable to send,
\* attempts no send, leaves next_request and returns Ok(None); if no
\* kiss-of-death is received from then on, the request is attempted by the
\* first later poll that reaches the due check with no timestamp while the
\* socket can send, and only that poll advances next_request.
C8_CannotSendSkip ==
    /\ SkipsRequest
    /\ (call.skipped0 = "pending" /\ NoTimestamp /\ ~GotKissOfDeath
          /\ call.can_send0) =>
          /\ Sent(call.ops)
          /\ next_request = call.now + 3600
          /\ call.fault # "send" =>
                socket.tx = Append(call.tx0, RequestDatagram)
    /\ (IsPoll /\ call.skipped0 = "pending" /\ ~GotKissOfDeath
          /\ ~(NoTimestamp /\ call.can_send0)) =>
          /\ next_request = call.nr0
          /\ skipped = "pending"

\* the skipped request goes out once the socket can send again
C8_Witness ==
    /\ IsPoll
    /\ call.skipped0 = "pending"
    /\ call.can_send0
    /\ Sent(call.ops)
    /\ call.result = Ok(None)
    /\ socket.tx = <<RequestDatagram>>
    /\ next_request = call.now + 3600
    /\ skipped = "no"

\* the transmit seconds of a datagram plus 2085978496 (bytes 124, 85, 129,
\* 128), added byte by byte from the last, the carry out of the first dropped
UnixSeconds(d) ==
    LET s4 == d[44] + 128
        s3 == d[43] + 129 + (s4 \div 256)
        s2 == d[42] + 85 + (s3 \div 256)
        s1 == d[41] + 124 + (s2 \div 256)
    IN  <<(s1 % 256) * 256 + (s2 % 256), (s3 % 256) * 256 + (s4 % 256)>>

\* C9: every timestamp poll returns is the transmit seconds of the received
\* packet plus 2085978496 modulo 2^32, whatever the fraction: seconds 0 give
\* 2085978496 and seconds 4294967295 give 2085978495.
C9_TimestampConversion ==
    (IsPoll /\ call.result.ts.some) =>
        /\ GotDatagram
        /\ call.result = Ok(Some(UnixSeconds(call.got.val)))
        /\ SubSeq(call.got.val, 41, 44) = <<0, 0, 0, 0>> =>
              call.result.ts.val = U32Of(2085978496)
        /\ SubSeq(call.got.val, 41, 44) = <<255, 255, 255, 255>> =>
              call.result.ts.val = U32Of(2085978495)

\* the wrap, on a packet that carries a fraction
C9_Witness ==
    /\ GotDatagram
    /\ WholePacket(call.got.val)
    /\ SubSeq(call.got.val, 41, 44) = <<255, 255, 255, 255>>
    /\ SubSeq(call.got.val, 45, 48) # <<0, 0, 0, 0>>
    /\ call.result = Ok(Some(U32Of(2085978495)))

\* C10 as stated: next_poll(now) is the signed difference next_request - now,
\* zero at now = next_request and negative past it, and changes neither
\* next_request nor the socket.
C10_AsStated ==
    (call.op = "next_poll") =>
        /\ call.dur = call.nr0 - call.now
        /\ next_request = call.nr0
        /\ socket.tx = call.tx0
        /\ (socket.endpoint.port # 0) = call.open0

\* how many times x occurs in the sequence ops
Count(ops, x) == Cardinality({i \in 1..Len(ops) : ops[i] = x})

\* the socket operations a poll may make, in order: is_open, bind if the
\* socket was not open, then recv, then can_send, then send
PollOrder(open0) ==
    IF open0 THEN <<"is_open", "recv", "can_send", "send">>
    ELSE <<"is_open", "bind", "recv", "can_send", "send">>

\* C11: every poll makes at most one receive attempt and at most one send
\* attempt, in the order bind (if the socket is not open), receive, send,
\* whatever the socket holds and whatever now is: the operations it makes
\* are the first ones of that order, and its transmit buffer grows by one
\* datagram at most.
C11_OneReceiveOneSend ==
    IsPoll =>
        /\ Count(call.ops, "recv") <= 1
        /\ Count(call.ops, "send") <= 1
        /\ Count(call.ops, "bind") = (IF call.open0 THEN 0 ELSE 1)
        /\ Len(call.ops) >= 2
        /\ Len(call.ops) <= Len(PollOrder(call.open0))
        /\ call.ops = SubSeq(PollOrder(call.open0), 1, Len(call.ops))
        /\ socket.tx = call.tx0 \/ socket.tx = Append(call.tx0, RequestDatagram)
        /\ (socket.tx # call.tx0) => Sent(call.ops)
        /\ call.got.some => Count(call.ops, "recv") = 1

\* a poll that receives a datagram and then sends the request
C11_Witness ==
    /\ IsPoll
    /\ call.got.some
    /\ Sent(call.ops)
    /\ Count(call.ops, "recv") = 1
    /\ Count(call.ops, "send") = 1
    /\ socket.tx = Append(call.tx0, RequestDatagram)

\* C12: a Repr whose fields are within their ranges, emitted into a buffer
\* of 48 bytes and parsed from it, comes back equal to itself; so does the
\* Repr of the request, from the datagram request() queued.
C12_RoundTrip ==
    /\ codec.op \in {"emitted", "parsed"} => Len(codec.buf) = 48
    /\ codec.op = "parsed" => codec.parsed = codec.repr
    /\ \A i \in 1..Len(socket.tx) :
          /\ Len(socket.tx[i].data) = 48
          /\ parse(socket.tx[i].data) = request_repr

\* a Repr with negative exponents, the last secondary stratum and a full
\* transmit timestamp came back, and the client has queued its request
C12_Witness ==
    /\ codec.op = "parsed"
    /\ codec.repr.poll_interval < 0
    /\ codec.repr.stratum = [kind |-> "SecondaryReference", val |-> 15]
    /\ codec.repr.protocol_mode = "Private"
    /\ codec.repr.xmit_timestamp.sec = <<65535, 65535>>
    /\ codec.parsed = codec.repr
    /\ socket.tx # <<>>

\* the seconds of the transmit timestamp, bytes 40..43 of the datagram
XmitSecondsOf(d) == SubSeq(d, 41, 44)

\* C13 as stated: the conversion is never applied to a zero-valued
\* placeholder timestamp: no poll returns a timestamp computed from a
\* datagram whose transmit timestamp has seconds zero.
C13_AsStated ==
    (GotDatagram /\ WholePacket(call.got.val)
        /\ XmitSecondsOf(call.got.val) = <<0, 0, 0, 0>>) =>
        ~call.result.ts.some

\* C14: a poll handed a well-formed packet (48 bytes or more) of a mode other
\* than Server, its stratum 0 or not, obtains no timestamp and next_request is
\* not moved by the packet: the request-due check that follows is made
\* against next_request as it was, and only a request moves it.
C14_ModeFiltering ==
    (GotDatagram /\ WholePacket(call.got.val) /\ ModeBits(call.got.val) # 4) =>
        /\ ~call.result.ts.some
        /\ call.fault = "none" =>
              /\ call.result = Ok(None)
              /\ Sent(call.ops) <=> (call.can_send0 /\ call.now >= call.nr0)
        /\ next_request = IF Sent(call.ops) THEN call.now + 3600 ELSE call.nr0

\* the echo of the client's own request, of stratum 0, arrives before the
\* next request is due
C14_Witness ==
    /\ GotDatagram
    /\ call.got.val = <<35>> \o Zeros(47)
    /\ call.fault = "none"
    /\ call.now < call.nr0
    /\ call.result = Ok(None)
    /\ next_request = call.nr0

\* C15: every request the client queues is a datagram of 48 bytes, its first
\* byte LI 0 (NoWarning), VN 4, mode 3 (Client), every other byte zero,
\* addressed to the configured server on port 123, whatever now is and
\* whatever was received before: a poll whose send succeeds appends one such
\* datagram, and nothing else is ever in the transmit buffer.
C15_RequestContent ==
    /\ \A i \in 1..Len(socket.tx) :
          /\ socket.tx[i].endpoint = [addr |-> ntp_server, port |-> 123]
          /\ Len(socket.tx[i].data) = 48
          /\ socket.tx[i].data[1] = 0 * 64 + 4 * 8 + 3
          /\ \A j \in 2..48 : socket.tx[i].data[j] = 0
    /\ (IsPoll /\ Sent(call.ops) /\ call.result.ok) =>
          socket.tx = Append(call.tx0, RequestDatagram)

\* a later request, sent at an instant other than 0 by a poll that was
\* handed a datagram
C15_Witness ==
    /\ IsPoll /\ Sent(call.ops) /\ call.result.ok
    /\ ~call.first
    /\ call.now > 0
    /\ call.send0.at >= 0
    /\ call.got.some
    /\ socket.tx = <<RequestDatagram>>

\* C16: the caller's now never going back, a poll that attempts a send, be
\* the attempt a success or a failure, does so 3600 s or more after the
\* latest attempt before it, successful or failed (call.send0), whatever
\* arrived, was sent or failed in between; so no two attempts are less than
\* 3600 s apart, and the timer stands 3600 s after the attempt.
C16_MinimumSpacing ==
    /\ (IsPoll /\ Sent(call.ops) /\ call.send0.at >= 0) =>
          call.now - call.send0.at >= 3600
    /\ (IsPoll /\ Sent(call.ops)) =>
          /\ last_send.at = call.now
          /\ next_request = call.now + 3600
    /\ last_send.at >= 0 => clock >= last_send.at

\* two attempts exactly 3600 s apart, the earlier one failed, the later one
\* made by a poll that was handed a datagram
C16_Witness ==
    /\ IsPoll /\ Sent(call.ops)
    /\ call.send0.at >= 0
    /\ ~call.send0.ok
    /\ call.got.some
    /\ call.now = call.send0.at + 3600

\* C17: a poll that is handed a kiss-of-death while the request is overdue
\* (now >= next_request on entry) and the socket can send attempts no send in
\* that call: the due check is made, after the timer has been moved to
\* now + 3600, and fails; the transmit buffer and the record of the latest
\* attempt stay as they were and the poll returns Ok(None).
C17_KissOfDeathSuppressesRequest ==
    (GotKissOfDeath /\ call.can_send0 /\ call.now >= call.nr0) =>
        /\ ReachedDueCheck
        /\ Count(call.ops, "send") = 0
        /\ socket.tx = call.tx0
        /\ last_send = call.send0
        /\ call.now < next_request
        /\ call.result = Ok(None)

\* the request was overdue by more than an hour and the send would have
\* succeeded
C17_Witness ==
    /\ GotKissOfDeath
    /\ call.can_send0
    /\ call.fault = "none"
    /\ call.now >= call.nr0 + 3600
    /\ ReachedDueCheck
    /\ socket.tx = <<>>
    /\ call.result = Ok(None)

\* the timer in a state: the instant of creation, or 3600 s after an instant
\* T between the creation and the latest poll
TimerInRange ==
    \/ next_request = created
    \/ /\ polled
       /\ \E T \in Times :
             /\ created <= T /\ T <= clock
             /\ next_request = T + 3600

\* a step that changes the timer: a poll, at an instant now no earlier than
\* any before, that attempted a send or was handed a kiss-of-death, and the
\* timer is now + 3600, later than it was
TimerStep ==
    next_request' # next_request =>
        /\ call'.op = "poll"
        /\ call'.nr0 = next_request
        /\ call'.now >= clock
        /\ clock' = call'.now
        /\ next_request' = call'.now + 3600
        /\ next_request' > next_request
        /\ \/ Sent(call'.ops)
           \/ call'.got.some /\ IsKissOfDeath(call'.got.val)

\* C18: now never going back and never before the creation, next_request
\* never decreases; it changes only in a poll, by a request or a
\* kiss-of-death, and only to that poll's now + 3600; in every state it is
\* the instant of creation or T + 3600 for the instant T of an earlier poll,
\* so it is no later than the latest poll + 3600.
C18_TimerInvariant ==
    /\ [](TimerInRange /\ (polled => next_request <= clock + 3600))
    /\ [][TimerStep]_vars

\* a kiss-of-death moves a timer that a request had moved before
C18_Witness ==
    /\ GotKissOfDeath
    /\ call.send0.at >= created
    /\ call.nr0 = call.send0.at + 3600
    /\ call.now > call.send0.at
    /\ next_request = call.now + 3600
    /\ next_request > call.nr0

\* what the bytes of a datagram alone make of it: a timestamp for 48 bytes or
\* more of mode Server and a stratum other than 0, nothing otherwise
OptionOfBytes(d) ==
    IF YieldsTimestamp(d) THEN Some(UnixSeconds(d)) ELSE None

\* C19: the Option a poll obtains from a received datagram is a function of
\* the datagram's bytes alone: the same for every sender, every next_request,
\* every now, and whether or not a request was ever sent; so two clients in
\* different states handed the same bytes obtain the same Option, and a
\* client that never sent a request obtains Some(ts) from a Server-mode
\* packet that is no kiss-of-death.
C19_FunctionOfPayload ==
    GotDatagram =>
        /\ call.result.ts = OptionOfBytes(call.got.val)
        /\ (call.send0.at < 0 /\ YieldsTimestamp(call.got.val)) =>
              call.result.ts.some

\* a client that never sent a request, its request overdue, is handed a
\* server's packet by a sender that is not its server
C19_Witness ==
    /\ GotDatagram
    /\ YieldsTimestamp(call.got.val)
    /\ call.send0.at < 0
    /\ call.now > call.nr0
    /\ call.from.addr # ntp_server
    /\ call.result.ts.some

\* a poll later than the poll before it
TimeAdvances == IsPoll /\ call.now > clock
\* a poll that met no failure of the socket
NoTransportError == IsPoll => call.result.ok
\* a poll that found the socket able to send and obtained neither a
\* timestamp nor a kiss-of-death
AbleAndIdle ==
    /\ ReachedDueCheck
    /\ call.can_send0
    /\ ~call.result.ts.some
    /\ ~GotKissOfDeath
\* a poll that sent a request
RequestSent == IsPoll /\ Sent(call.ops) /\ call.result.ok
\* a poll handed a server's packet, kiss-of-death or not
ServerStream ==
    GotDatagram /\ (YieldsTimestamp(call.got.val) \/ IsKissOfDeath(call.got.val))

\* C20 as stated: if poll is called again and again with now growing
\* without bound, no poll meets a transport error, and again and again a
\* poll finds the socket able to send and obtains neither a timestamp nor a
\* kiss-of-death, then requests are sent again and again.
C20_AsStated ==
    ([]<>TimeAdvances /\ []NoTransportError /\ []<>AbleAndIdle) => []<>RequestSent

\* C20: so it is when, besides, kiss-of-death packets stop arriving from
\* some poll on; and a poll handed a server's packet, kiss-of-death or
\* timestamp, sends nothing, so that a stream of them, one for every poll,
\* keeps the requests from being sent.
C20_EventualRequest ==
    /\ [](ServerStream => ~Sent(call.ops))
    /\ ([]<>TimeAdvances /\ []NoTransportError /\ []<>AbleAndIdle
           /\ <>[]~GotKissOfDeath) => []<>RequestSent

\* a poll an interval after the latest request, with nothing received, the
\* socket able to send, sends the next request
C20_Witness ==
    /\ RequestSent
    /\ AbleAndIdle
    /\ TimeAdvances
    /\ call.nr0 = clock + 3600
    /\ call.now = call.nr0

====
